---- MODULE Spec2Model ----
(***************************************************************************)
(* A model of rule-mirror (blob-mirror): the Redis registry and event bus   *)
(* of common/src/db.rs, the webhook handlers of web/src/main.rs and the     *)
(* mirror worker of bot/src/main.rs.                                        *)
(*                                                                          *)
(* Three specifications share the module:                                   *)
(*   Spec      the seen state machine: Conn::seen_bool, Conn::seen,         *)
(*             mark_seen, mark_unseen, is_seen, delete_on_seen and          *)
(*             dereact_on_seen, run by concurrent tasks, one Redis command  *)
(*             per step (the commands are the only suspension points);      *)
(*   SpecPush  mirror groups and the push path: Conn::add_update,           *)
(*             Conn::on_repo_update, Conn::repo_updates, push_event;        *)
(*   SpecPage  the pagination of do_update.                                 *)
(* Every variable is set by every Init; the actions of one specification    *)
(* leave the variables of the others unchanged.                             *)
(***************************************************************************)
EXTENDS Integers, Sequences, FiniteSets, TLC

VARIABLES
    \* ---- Redis keys of the seen state machine
    seen_key,          \* the set "seen": repo ids as decimal strings
    delete_list,       \* the lists "delete-on-seen:<repo>", by repo id
    dereact_list,      \* the lists "dereact-on-seen:<repo>", by repo id
    on_seen_topic,     \* every message published on "on_seen", in order
    task,              \* the concurrent seen_bool futures, by task id
    \* ---- history of the seen state machine (not program state)
    queued,            \* every delete_on_seen/dereact_on_seen call, in order
    hist,              \* per repo: "never", "true" or "false" (last intent)
    \* ---- Redis keys of the mirror groups
    repo_key,          \* the sets "repo:<repo>": group ids, by repo id
    path_key,          \* the strings "mirror-group:<id>:path", Nil when absent
    channel_key,       \* the strings "mirror-group:<id>:channel", Nil when absent
    messages_key,      \* the lists "mirror-group:<id>:messages"
    rev_key,           \* the strings "mirror-group-rev:<message>", Nil when absent
    updates_topic,     \* every message published on "updates", in order
    push,              \* the push_event handler
    \* ---- history of the mirror groups (not program state)
    created,           \* every add_update call, in order
    \* ---- the mirror worker
    upd,               \* the do_update task: its Update, the file and its locals
    chat,              \* the chat messages of the Update, by message id
    inbox,             \* the Updates in the receiver of the worker, oldest first
    jobs,              \* the do_update tasks spawned by the worker, by number
    \* ---- the mirror command
    cmd,               \* the mirror_cmd task: its arguments, the file and its locals
    \* ---- the webhook server
    web,               \* the handler of an installation or repository event
    \* ---- a subscriber
    sub                \* the task spawned by db::subscriber, its stream and its channel

seen_vars == <<seen_key, delete_list, dereact_list, on_seen_topic, task,
               queued, hist>>

push_vars == <<repo_key, path_key, channel_key, messages_key, rev_key,
               updates_topic, push, created>>

page_vars == <<upd, chat, inbox, jobs>>

cmd_vars == <<cmd>>

web_vars == <<web>>

sub_vars == <<sub>>

vars == <<seen_vars, push_vars, page_vars, cmd_vars, web_vars, sub_vars>>

----------------------------------------------------------------------------
(* Bounds of the model *)

MaxPublish == 2      \* seen transitions handled (messages on on_seen)
MaxEnqueue == 2      \* delete_on_seen and dereact_on_seen calls
MaxAdds == 2         \* add_update calls
MaxPush == 2         \* push events
MaxPages == 2        \* messages of one mirror group
MaxSlots == 2        \* message ids of the Update that do_update handles
MaxMessages == 3     \* messages published on the topic of the subscriber
MaxBreaks == 1       \* losses of the pub/sub connection
MaxLogged == 2       \* the subscriber's count of logged errors wraps after it
MaxJobs == 2         \* Updates received by the worker

(* The inputs of the model *)

AllRepos == {42, 43} \* the repositories that have keys in the registry
Repos == {42}        \* the repositories the events of Spec are about
Channels == {7}
Tasks == {1, 2}      \* seen_bool futures that may run at the same time
GroupIds == {"Ab3", "Zx9"}          \* what the random generator may yield
Paths == <<"README.md", "docs/rules.md", "a.txt">>
FullNames == {<<"SOF3", "rule-mirror">>, <<"SOF3">>}   \* full_name, split at '/'
Nil == "(nil)"       \* the Redis reply for an absent string key

----------------------------------------------------------------------------
(* u64::to_string and str::parse::<u64>: decimal digits *)

Digits == <<"0", "1", "2", "3", "4", "5", "6", "7", "8", "9">>

RECURSIVE to_string(_)
to_string(n) ==
    IF n < 10 THEN <<Digits[n + 1]>>
    ELSE to_string(n \div 10) \o <<Digits[(n % 10) + 1]>>

DigitValue(c) == (CHOOSE d \in 1..10 : Digits[d] = c) - 1

IsDigit(c) == \E d \in 1..10 : Digits[d] = c

RECURSIVE ParseValue(_)
ParseValue(s) ==
    IF Len(s) = 0 THEN 0
    ELSE 10 * ParseValue(SubSeq(s, 1, Len(s) - 1)) + DigitValue(s[Len(s)])

\* str::parse::<u64>: Err for an empty string or one holding a non-digit
parse_u64(s) ==
    IF Len(s) > 0 /\ \A i \in 1..Len(s) : IsDigit(s[i])
    THEN [ok |-> TRUE, value |-> ParseValue(s)]
    ELSE [ok |-> FALSE, value |-> 0]

\* the loops of Conn::seen that parse a Vec<String> into a Vec<u64>: the first
\* string that is no integer fails the whole call
ParseAll(strings) ==
    IF \A i \in 1..Len(strings) : parse_u64(strings[i]).ok
    THEN [ok |-> TRUE, value |-> [i \in 1..Len(strings) |-> parse_u64(strings[i]).value]]
    ELSE [ok |-> FALSE, value |-> <<>>]

----------------------------------------------------------------------------
(* The Redis commands the program sends: the new value and the reply *)

\* SADD key member: the reply is the number of members added
SADD(set, member) ==
    [value |-> set \cup {member}, reply |-> IF member \in set THEN 0 ELSE 1]

\* RPUSH key v1 v2 ...: the reply is the length of the list after the push
RPUSH(list, values) ==
    [value |-> list \o values, reply |-> Len(list) + Len(values)]

\* LRANGE key 0 -1: the whole list; an absent key is the empty list
LRANGE(list) == list

\* SMISMEMBER key member: one 0/1 per member asked
SMISMEMBER(set, member) == <<IF member \in set THEN 1 ELSE 0>>

\* redis_async decodes an integer reply into bool: 0 and 1 only
FromRespBool(n) ==
    IF n = 0 THEN [ok |-> TRUE, value |-> FALSE]
    ELSE IF n = 1 THEN [ok |-> TRUE, value |-> TRUE]
    ELSE [ok |-> FALSE, value |-> FALSE]

----------------------------------------------------------------------------
(* Conn: the seen state machine *)

IdleTask ==
    [pc |-> "idle", op |-> "none", repo_id |-> 0, seen |-> FALSE, changed |-> FALSE,
     deletion_strings |-> <<>>, dereact_strings |-> <<>>,
     del_count |-> 0, der_count |-> 0, ret |-> "none"]

\* the entries queued so far for a repository with one of the two calls
QueuedFor(repo_id, kind) ==
    {i \in DOMAIN queued : queued[i].repo_id = repo_id /\ queued[i].kind = kind}

\* a future that has returned: only its result is kept
Returned(t, ret) == [IdleTask EXCEPT !.pc = "done", !.ret = ret]

\* a Redis command of task t fails (connection error): the `?` returns Err
CommandFails(t) == task' = [task EXCEPT ![t] = Returned(t, "Err")]

\* the futures of Conn::seen that have not returned
InFlightSeen == {t \in Tasks : task[t].op = "seen"}

\* the futures that have not returned
Busy(t) == task[t].pc \notin {"idle", "done"}

\* the message id of the next queued entry: every entry has its own
FreshMessage == 100 + Len(queued)

\* seen_bool with the branches of its `if seen` exchanged
seen_bool_inverted(t, repo_id, seen) ==
    /\ ~Busy(t)
    /\ \A u \in Tasks : u < t => Busy(u)
    /\ ~seen => Len(on_seen_topic) + Cardinality(InFlightSeen) < MaxPublish
    /\ task' = [task EXCEPT ![t] =
                  [IdleTask EXCEPT !.pc = IF seen THEN "mark_unseen" ELSE "mark_seen",
                                   !.op = IF seen THEN "mark_unseen" ELSE "seen",
                                   !.repo_id = repo_id, !.seen = seen]]
    /\ hist' = IF seen THEN [hist EXCEPT ![repo_id] = "true"] ELSE hist
    /\ UNCHANGED <<seen_key, delete_list, dereact_list, on_seen_topic, queued>>

\* Conn::seen_bool(repo_id, seen) is called: the future of task t starts
seen_bool(t, repo_id, seen) ==
    /\ ~Busy(t)
    /\ \A u \in Tasks : u < t => Busy(u)     \* the free futures are alike
    /\ seen => Len(on_seen_topic) + Cardinality(InFlightSeen) < MaxPublish
    /\ task' = [task EXCEPT ![t] =
                  [IdleTask EXCEPT !.pc = IF seen THEN "mark_seen" ELSE "mark_unseen",
                                   !.op = IF seen THEN "seen" ELSE "mark_unseen",
                                   !.repo_id = repo_id, !.seen = seen]]
    /\ hist' = IF seen THEN [hist EXCEPT ![repo_id] = "true"] ELSE hist
    /\ UNCHANGED <<seen_key, delete_list, dereact_list, on_seen_topic, queued>>

\* Conn::mark_seen, the first await of Conn::seen: SADD seen <repo_id>.
\* Conn::seen drops the returned `changed`.
mark_seen(t) ==
    /\ task[t].pc = "mark_seen"
    /\ \/ LET r == SADD(seen_key, to_string(task[t].repo_id)) IN
          /\ seen_key' = r.value
          /\ task' = [task EXCEPT ![t].pc = "lrange_deletions",
                                  ![t].changed = FromRespBool(r.reply).value]
       \/ CommandFails(t) /\ UNCHANGED seen_key
    /\ UNCHANGED <<delete_list, dereact_list, on_seen_topic, queued, hist>>

\* Conn::seen that reads the deletions of all repositories from one list
lrange_deletions_shared(t) ==
    /\ task[t].pc = "lrange_deletions"
    /\ \/ /\ task' = [task EXCEPT
                        ![t].pc = "lrange_dereacts",
                        ![t].deletion_strings =
                            LRANGE(delete_list[42]) \o LRANGE(delete_list[43]),
                        ![t].del_count = Cardinality(QueuedFor(task[t].repo_id, "delete"))]
       \/ CommandFails(t)
    /\ UNCHANGED <<seen_key, delete_list, dereact_list, on_seen_topic, queued, hist>>

\* Conn::seen: LRANGE delete-on-seen:<repo_id> 0 -1
lrange_deletions(t) ==
    /\ task[t].pc = "lrange_deletions"
    /\ \/ /\ task' = [task EXCEPT
                        ![t].pc = "lrange_dereacts",
                        ![t].deletion_strings = LRANGE(delete_list[task[t].repo_id]),
                        ![t].del_count = Cardinality(QueuedFor(task[t].repo_id, "delete"))]
       \/ CommandFails(t)
    /\ UNCHANGED <<seen_key, delete_list, dereact_list, on_seen_topic, queued, hist>>

\* Conn::seen: LRANGE dereact-on-seen:<repo_id> 0 -1
lrange_dereacts(t) ==
    /\ task[t].pc = "lrange_dereacts"
    /\ \/ /\ task' = [task EXCEPT
                        ![t].pc = "publish",
                        ![t].dereact_strings = LRANGE(dereact_list[task[t].repo_id]),
                        ![t].der_count = Cardinality(QueuedFor(task[t].repo_id, "dereact"))]
       \/ CommandFails(t)
    /\ UNCHANGED <<seen_key, delete_list, dereact_list, on_seen_topic, queued, hist>>

\* Conn::seen: parse both lists, build OnSeen, PUBLISH on_seen <json>, Ok(()).
\* repo_id, changed, del_count and der_count of the log entry are history:
\* the message itself is {deletions, dereacts}.
publish_on_seen(t) ==
    /\ task[t].pc = "publish"
    /\ LET deletions == ParseAll(task[t].deletion_strings)
           dereacts == ParseAll(task[t].dereact_strings)
       IN \/ /\ deletions.ok /\ dereacts.ok
             /\ on_seen_topic' = Append(on_seen_topic,
                   [deletions |-> deletions.value, dereacts |-> dereacts.value,
                    repo_id |-> task[t].repo_id, changed |-> task[t].changed,
                    del_count |-> task[t].del_count, der_count |-> task[t].der_count])
             /\ task' = [task EXCEPT ![t] = Returned(t, "Ok")]
          \/ /\ ~(deletions.ok /\ dereacts.ok)
             /\ task' = [task EXCEPT ![t] = Returned(t, "Err")]
             /\ UNCHANGED on_seen_topic
          \/ /\ deletions.ok /\ dereacts.ok
             /\ CommandFails(t)
             /\ UNCHANGED on_seen_topic
    /\ UNCHANGED <<seen_key, delete_list, dereact_list, queued, hist>>

\* Conn::mark_unseen, the only await of seen_bool(repo_id, false):
\* SADD seen <repo_id>, as the source has it
mark_unseen(t) ==
    /\ task[t].pc = "mark_unseen"
    /\ \/ LET r == SADD(seen_key, to_string(task[t].repo_id)) IN
          /\ seen_key' = r.value
          /\ task' = [task EXCEPT ![t] = Returned(t, "Ok")]
          /\ hist' = [hist EXCEPT ![task[t].repo_id] = "false"]
       \/ CommandFails(t) /\ UNCHANGED <<seen_key, hist>>
    /\ UNCHANGED <<delete_list, dereact_list, on_seen_topic, queued>>

\* Conn::is_seen: SMISMEMBER seen <repo_id>, the first element of the reply
is_seen(repo_id) ==
    FromRespBool(SMISMEMBER(seen_key, to_string(repo_id))[1]).value

\* Conn::delete_on_seen: RPUSH delete-on-seen:<repo_id> <channel_id> <message_id>,
\* two list elements per call; the reply (the list length) is decoded as bool
delete_on_seen(repo_id, channel_id, message_id) ==
    /\ Len(queued) < MaxEnqueue
    /\ message_id = FreshMessage
    /\ LET r == RPUSH(delete_list[repo_id],
                      <<to_string(channel_id), to_string(message_id)>>) IN
          /\ delete_list' = [delete_list EXCEPT ![repo_id] = r.value]
          /\ queued' = Append(queued,
                [kind |-> "delete", repo_id |-> repo_id, channel_id |-> channel_id,
                 message_id |-> message_id,
                 ret |-> IF FromRespBool(r.reply).ok THEN "Ok" ELSE "Err"])
    /\ UNCHANGED <<seen_key, dereact_list, on_seen_topic, task, hist>>

\* Conn::dereact_on_seen: RPUSH dereact-on-seen:<repo_id> <channel_id> <message_id>;
\* the reply is decoded as usize
dereact_on_seen(repo_id, channel_id, message_id) ==
    /\ Len(queued) < MaxEnqueue
    /\ message_id = FreshMessage
    /\ LET r == RPUSH(dereact_list[repo_id],
                      <<to_string(channel_id), to_string(message_id)>>) IN
          /\ dereact_list' = [dereact_list EXCEPT ![repo_id] = r.value]
          /\ queued' = Append(queued,
                [kind |-> "dereact", repo_id |-> repo_id, channel_id |-> channel_id,
                 message_id |-> message_id, ret |-> "Ok"])
    /\ UNCHANGED <<seen_key, delete_list, on_seen_topic, task, hist>>

----------------------------------------------------------------------------
(* Conn: mirror groups and the push path *)

\* SMEMBERS key: the members, in an order Redis chooses
SMEMBERS(set) ==
    {order \in [1..Cardinality(set) -> set] :
        \A i, j \in 1..Cardinality(set) : i # j => order[i] # order[j]}

\* GET key: the string, or nil for an absent key
GET(value) == value

\* redis_async decodes a bulk string reply into String; nil is an error
FromRespString(reply) ==
    IF reply = Nil THEN [ok |-> FALSE, value |-> ""] ELSE [ok |-> TRUE, value |-> reply]

\* a list command whose name Redis takes for LRANGE whatever it is
ListCommand_any(name, list) == [ok |-> TRUE, value |-> LRANGE(list)]

\* a command that reads a list: Redis knows LRANGE; any other name is answered
\* with the error reply "unknown command"
ListCommand(name, list) ==
    IF name = "LRANGE" THEN [ok |-> TRUE, value |-> LRANGE(list)]
    ELSE [ok |-> FALSE, value |-> <<>>]

\* format!("https://raw.githubusercontent.com/{}/{}/{}", user, repo, path)
RawUrl(user, repo, path) ==
    <<"https://raw.githubusercontent.com/", user, "/", repo, "/", path>>

\* the message ids a mirror command passes to its add_update call: the ids of
\* the messages it has just sent, which no earlier call has
FreshMessageIds(n) == [k \in 1..n |-> 200 + MaxPages * Len(created) + k]

MessageIds == 201..(200 + MaxPages * MaxAdds)

Writes == {"path", "channel", "messages", "rev"}

\* the outcomes of the four writes that the model follows: all of them reach
\* Redis, one of them is lost, or the connection is lost before any
AppliedCases == {Writes, {}} \cup {Writes \ {w} : w \in Writes}

\* the number of messages of the next mirror group: 1, 2, ..., MaxPages, 1, ...
NextPages == (Len(created) % MaxPages) + 1

\* Conn::add_update with the generated id drawn as `id`. After the SADD the
\* four writes are awaited together (try_join4): `applied` are those that
\* reached Redis, and the call returns Ok when all of them did. A SADD reply
\* of 0 fails the assert.
add_update(repo_id, path, channel, message_ids, id, applied) ==
    /\ Len(created) < MaxAdds
    /\ LET r == SADD(repo_key[repo_id], id)
           changed == FromRespBool(r.reply).value
           written == changed
           ret == IF ~changed THEN "panic"
                  ELSE IF applied = Writes THEN "Ok" ELSE "Err"
       IN /\ repo_key' = [repo_key EXCEPT ![repo_id] = r.value]
          /\ path_key' = IF written /\ "path" \in applied
                         THEN [path_key EXCEPT ![id] = path] ELSE path_key
          /\ channel_key' = IF written /\ "channel" \in applied
                            THEN [channel_key EXCEPT ![id] = to_string(channel)]
                            ELSE channel_key
          /\ messages_key' =
                IF written /\ "messages" \in applied
                THEN [messages_key EXCEPT ![id] =
                        RPUSH(messages_key[id],
                              [k \in 1..Len(message_ids) |-> to_string(message_ids[k])]).value]
                ELSE messages_key
          /\ rev_key' =
                IF written /\ "rev" \in applied
                THEN [m \in MessageIds |->
                        IF \E k \in 1..Len(message_ids) : message_ids[k] = m
                        THEN id ELSE rev_key[m]]
                ELSE rev_key
          /\ created' = Append(created,
                [repo_id |-> repo_id, id |-> id, path |-> path, channel |-> channel,
                 message_ids |-> message_ids, applied |-> IF written THEN applied ELSE {},
                 ret |-> ret])
    /\ UNCHANGED <<updates_topic, push>>

IdlePush ==
    [pc |-> "idle", n |-> 0, repo_id |-> 0, user |-> "", repo |-> "",
     groups |-> <<>>, updates |-> <<>>, i |-> 0, base |-> 0,
     conn_error |-> FALSE, output |-> "none"]

\* the handler answers
Answer(output, conn_error) ==
    [IdlePush EXCEPT !.pc = "done", !.n = push.n, !.repo_id = push.repo_id,
                     !.user = push.user, !.repo = push.repo,
                     !.groups = push.groups, !.base = push.base,
                     !.conn_error = conn_error, !.output = output]

\* push_event: split full_name at '/', then Conn::on_repo_update(id, user, repo)
push_event(repo_id, full_name) ==
    /\ push.pc \in {"idle", "done"}
    /\ push.n < MaxPush
    /\ push' = IF Len(full_name) >= 2
               THEN [IdlePush EXCEPT !.pc = "smembers", !.n = push.n + 1,
                                     !.repo_id = repo_id, !.user = full_name[1],
                                     !.repo = full_name[2],
                                     !.base = Len(updates_topic)]
               ELSE [IdlePush EXCEPT !.pc = "done", !.n = push.n + 1,
                                     !.repo_id = repo_id, !.base = Len(updates_topic),
                                     !.output = "Deserialization error"]
    /\ UNCHANGED <<repo_key, path_key, channel_key, messages_key, rev_key,
                   updates_topic, created>>

\* Conn::repo_updates: SMEMBERS repo:<repo_id>
repo_updates_smembers ==
    /\ push.pc = "smembers"
    /\ \/ \E groups \in SMEMBERS(repo_key[push.repo_id]) :
             push' = [push EXCEPT !.pc = "load", !.groups = groups]
       \/ push' = Answer("ERROR", TRUE)
    /\ UNCHANGED <<repo_key, path_key, channel_key, messages_key, rev_key,
                   updates_topic, created>>

\* Conn::repo_updates, the future of one group: GET path, GET channel and the
\* list command of the source, "LANGE <key>", joined with try_join3
GroupUpdate(id, user, repo) ==
    LET path == FromRespString(GET(path_key[id]))
        channel == FromRespString(GET(channel_key[id]))
        channel_id == parse_u64(IF channel.ok THEN channel.value ELSE <<>>)
        messages == ListCommand("LANGE", messages_key[id])
        message_ids == ParseAll(messages.value)
    IN [ok |-> path.ok /\ channel.ok /\ channel_id.ok /\ messages.ok /\ message_ids.ok,
        value |-> [channel_id |-> channel_id.value,
                   message_ids |-> message_ids.value,
                   url |-> RawUrl(user, repo, path.value)]]

\* repo_updates that takes an empty group list for an error
repo_updates_nonempty(groups, user, repo) ==
    IF Len(groups) > 0 /\ \A k \in 1..Len(groups) : GroupUpdate(groups[k], user, repo).ok
    THEN [ok |-> TRUE,
          value |-> [k \in 1..Len(groups) |-> GroupUpdate(groups[k], user, repo).value]]
    ELSE [ok |-> FALSE, value |-> <<>>]

\* Conn::repo_updates: try_join_all over the groups
repo_updates(groups, user, repo) ==
    IF \A k \in 1..Len(groups) : GroupUpdate(groups[k], user, repo).ok
    THEN [ok |-> TRUE,
          value |-> [k \in 1..Len(groups) |-> GroupUpdate(groups[k], user, repo).value]]
    ELSE [ok |-> FALSE, value |-> <<>>]

\* repo_updates_load that loads the groups of a seen repository only
repo_updates_load_if_seen ==
    /\ push.pc = "load"
    /\ LET r == repo_updates(push.groups, push.user, push.repo) IN
          push' = IF to_string(push.repo_id) \notin seen_key THEN Answer("OK", FALSE)
                  ELSE IF r.ok
                  THEN [push EXCEPT !.pc = "publish", !.updates = r.value, !.i = 1]
                  ELSE Answer("ERROR", FALSE)
    /\ UNCHANGED <<repo_key, path_key, channel_key, messages_key, rev_key,
                   updates_topic, created>>

\* Conn::repo_updates: the groups are loaded; an Err is returned by the `?` of
\* on_repo_update and answered "ERROR"
repo_updates_load ==
    /\ push.pc = "load"
    /\ LET r == repo_updates(push.groups, push.user, push.repo) IN
          push' = IF r.ok THEN [push EXCEPT !.pc = "publish", !.updates = r.value, !.i = 1]
                  ELSE Answer("ERROR", FALSE)
    /\ UNCHANGED <<repo_key, path_key, channel_key, messages_key, rev_key,
                   updates_topic, created>>

\* Conn::on_repo_update: one round of the loop, PUBLISH updates <json>, or its
\* end, Ok(()), which push_event answers "OK"
on_repo_update_publish ==
    /\ push.pc = "publish"
    /\ \/ /\ push.i > Len(push.updates)
          /\ push' = Answer("OK", FALSE)
          /\ UNCHANGED updates_topic
       \/ /\ push.i <= Len(push.updates)
          /\ updates_topic' = Append(updates_topic, push.updates[push.i])
          /\ push' = [push EXCEPT !.i = push.i + 1]
       \/ /\ push.i <= Len(push.updates)
          /\ push' = Answer("ERROR", TRUE)
          /\ UNCHANGED updates_topic
    /\ UNCHANGED <<repo_key, path_key, channel_key, messages_key, rev_key, created>>

InitPush ==
    /\ repo_key = [r \in AllRepos |-> {}]
    /\ path_key = [g \in GroupIds |-> Nil]
    /\ channel_key = [g \in GroupIds |-> Nil]
    /\ messages_key = [g \in GroupIds |-> <<>>]
    /\ rev_key = [m \in MessageIds |-> Nil]
    /\ updates_topic = <<>>
    /\ push = IdlePush
    /\ created = <<>>

----------------------------------------------------------------------------
(* The mirror worker: do_update *)

MESSAGE_MAX_LENGTH == 2000

\* The file is `len` bytes of UTF-8 with at most one character of two bytes:
\* `wide` is the offset of its second byte (0: the file is ASCII). The text
\* that do_update works on is the first `cut` bytes of the file followed by
\* the first `err` bytes of the suffix; a slice is a byte range of that text.

\* len of format!("\u{2026}\nSee <{}> for more", url): the ellipsis is three
\* bytes, "\nSee <" six, "> for more" ten; the URL is ASCII
ErrLen(url_len) == 3 + 6 + url_len + 10

TextLen(text) == text.cut + text.err

\* str::is_char_boundary: the second byte of the wide character and bytes 1
\* and 2 of the suffix (inside its ellipsis) are no boundaries
is_char_boundary(text, wide, k) ==
    IF k = 0 \/ k = TextLen(text) THEN TRUE
    ELSE IF k > TextLen(text) THEN FALSE
    ELSE IF k < text.cut THEN k # wide
    ELSE (k - text.cut) \notin {1, 2}

\* do_update, lines 68-73: max_len, String::truncate and the append of the
\* suffix. truncate panics off a character boundary. max_len - err.len()
\* overflows when the suffix is longer than max_len: a debug build panics; a
\* release build wraps to a length beyond the text, truncate does nothing and
\* the suffix is appended to the whole file.
Truncated(len, wide, slots, url_len, build) ==
    LET max_len == slots * MESSAGE_MAX_LENGTH
        whole == [cut |-> len, err |-> 0]
    IN IF ~(max_len < len) THEN [ret |-> "Ok", text |-> whole]
       ELSE IF max_len < ErrLen(url_len)
            THEN IF build = "debug" THEN [ret |-> "panic", text |-> whole]
                 ELSE [ret |-> "Ok", text |-> [cut |-> len, err |-> ErrLen(url_len)]]
       ELSE IF ~is_char_boundary(whole, wide, max_len - ErrLen(url_len))
            THEN [ret |-> "panic", text |-> whole]
       ELSE [ret |-> "Ok",
             text |-> [cut |-> max_len - ErrLen(url_len), err |-> ErrLen(url_len)]]

Min(a, b) == IF a < b THEN a ELSE b

Placeholder == [kind |-> "placeholder", from |-> 0, to |-> 0]
Unedited == [kind |-> "unedited", from |-> 0, to |-> 0]

\* text.get(*range*).unwrap_or("*(message reserved for expansion)*") for the
\* message at index i (from 0): str::get is None for a range that starts after
\* its end, ends after the text or does not lie on character boundaries
Slice(text, wide, i) ==
    LET start == MESSAGE_MAX_LENGTH * i
        end == Min(MESSAGE_MAX_LENGTH * (i + 1), TextLen(text))
    IN IF /\ start <= end
          /\ is_char_boundary(text, wide, start)
          /\ is_char_boundary(text, wide, end)
       THEN [kind |-> "slice", from |-> start, to |-> end]
       ELSE Placeholder

\* do_update up to its first edit: the download (reqwest::get, Response::text)
\* and the truncation
do_update_fetch(build) ==
    /\ upd.pc = "fetch"
    /\ \/ LET t == Truncated(upd.len, upd.wide, Len(upd.message_ids), upd.url_len, build) IN
          upd' = IF t.ret = "Ok"
                 THEN [upd EXCEPT !.pc = "edit", !.text = t.text, !.i = 0]
                 ELSE [upd EXCEPT !.pc = "done", !.ret = t.ret]
       \/ upd' = [upd EXCEPT !.pc = "done", !.ret = "Failed to download file"]
    /\ UNCHANGED chat

\* do_update, one round of the loop: channel.message, then message.edit with
\* the slice; an error of either (the message is one of upd.broken, which the
\* chat service refuses to fetch or edit) returns Err through the `?`. After
\* the last round, Ok(()).
do_update_edit ==
    /\ upd.pc = "edit"
    /\ \/ /\ upd.i < Len(upd.message_ids)
          /\ upd.message_ids[upd.i + 1] \notin upd.broken
          /\ chat' = [chat EXCEPT ![upd.message_ids[upd.i + 1]] =
                        [content |-> Slice(upd.text, upd.wide, upd.i),
                         edits |-> @.edits + 1]]
          /\ upd' = [upd EXCEPT !.i = upd.i + 1]
       \/ /\ upd.i < Len(upd.message_ids)
          /\ upd.message_ids[upd.i + 1] \in upd.broken
          /\ upd' = [upd EXCEPT !.pc = "done", !.ret = "Err"]
          /\ UNCHANGED chat
       \/ /\ upd.i >= Len(upd.message_ids)
          /\ upd' = [upd EXCEPT !.pc = "done", !.ret = "Ok"]
          /\ UNCHANGED chat

\* the lengths of the downloaded file: empty, short, and around every multiple
\* of the capacity up to MaxSlots
TextLens ==
    {0, 5} \cup {k * MESSAGE_MAX_LENGTH + d : k \in 1..MaxSlots, d \in {-1, 0, 1, 500}}

\* the lengths of update.url: a usual one, one that puts the ellipsis of the
\* suffix across a multiple of the capacity, one longer than the capacity
UrlLens == {60, 1982, 2100}

\* where the wide character of the file may lie: nowhere, across a multiple of
\* the capacity, or across the cut of the truncation
WideCases(len, slots, url_len) ==
    {0} \cup {w \in {k * MESSAGE_MAX_LENGTH : k \in 1..MaxSlots}
                    \cup {slots * MESSAGE_MAX_LENGTH - ErrLen(url_len)} :
                w >= 1 /\ w <= len - 1}

SlotIds == {300 + k : k \in 1..MaxSlots}

IdleUpdate ==
    [pc |-> "idle", channel_id |-> 0, message_ids |-> <<>>, url_len |-> 0,
     len |-> 0, wide |-> 0, text |-> [cut |-> 0, err |-> 0], i |-> 0, ret |-> "none",
     broken |-> {}]

\* a do_update task of the worker that has not been spawned
IdleJob ==
    [pc |-> "idle", message_ids |-> <<>>, url_len |-> 0, file |-> 0, wide |-> 0,
     text |-> [cut |-> 0, err |-> 0], i |-> 0, edited |-> 0, logged |-> 0, ret |-> "none"]

Jobs == 1..MaxJobs

InitJobsIdle ==
    /\ inbox = <<>>
    /\ jobs = [j \in Jobs |-> IdleJob]

InitPageIdle ==
    /\ upd = IdleUpdate
    /\ chat = [m \in SlotIds |-> [content |-> Unedited, edits |-> 0]]
    /\ InitJobsIdle

\* do_update(update, ctx) is spawned for an Update received from the bus; the
\* file behind update.url is one of the files above, and some of the messages
\* may be gone from the channel
InitPage ==
    /\ \E slots \in 1..MaxSlots, len \in TextLens, url_len \in UrlLens :
         \E wide \in WideCases(len, slots, url_len), c \in Channels,
            broken \in SUBSET {300 + k : k \in 1..slots} :
             upd = [IdleUpdate EXCEPT !.pc = "fetch", !.channel_id = c,
                                      !.message_ids = [k \in 1..slots |-> 300 + k],
                                      !.url_len = url_len, !.len = len, !.wide = wide,
                                      !.broken = broken]
    /\ chat = [m \in SlotIds |-> [content |-> Unedited, edits |-> 0]]
    /\ InitJobsIdle

----------------------------------------------------------------------------
(* The mirror worker: the loop of Handler::ready that spawns do_update *)

\* the versions of the file behind update.url, by number: their lengths
FileLen(file) == IF file = 1 THEN MESSAGE_MAX_LENGTH + 500 ELSE 1500

Files == {1, 2}

\* what a task writes into message i (from 0): the slice of its version, or
\* the placeholder, which is the same text for every version
Content(text, wide, file, i) ==
    LET slice == Slice(text, wide, i) IN
    IF slice.kind = "slice"
    THEN [kind |-> "slice", from |-> slice.from, to |-> slice.to, file |-> file]
    ELSE [kind |-> "placeholder", from |-> 0, to |-> 0, file |-> 0]

\* JobReturns without the closure that logs
JobReturns_unlogged(j, ret) == [jobs[j] EXCEPT !.pc = "done", !.ret = ret]

\* the task ends; the closure given to map logs an Err
JobReturns(j, ret) ==
    [jobs[j] EXCEPT !.pc = "done", !.ret = ret,
                    !.logged = IF ret \in {"Ok", "panic"} THEN @ ELSE @ + 1]

\* ready, one round of `while let Some(update) = conn.recv().await`:
\* tokio::spawn(do_update(update, ctx.clone()).map(...))
ready_spawn ==
    /\ Len(inbox) > 0
    /\ \E j \in Jobs :
          /\ jobs[j].pc = "idle"
          /\ \A k \in Jobs : k < j => jobs[k].pc # "idle"
          /\ jobs' = [jobs EXCEPT ![j] =
                        [IdleJob EXCEPT !.pc = "fetch",
                                        !.message_ids = Head(inbox).message_ids,
                                        !.url_len = Head(inbox).url_len]]
    /\ inbox' = Tail(inbox)
    /\ UNCHANGED <<upd, chat>>

\* do_update of task j up to its first edit: the download, which yields the
\* version of the file that is current, and the truncation
job_fetch(j, file, build) ==
    /\ jobs[j].pc = "fetch"
    /\ \/ LET t == Truncated(FileLen(file), 0, Len(jobs[j].message_ids),
                             jobs[j].url_len, build) IN
          jobs' = [jobs EXCEPT ![j] =
                     IF t.ret = "Ok"
                     THEN [@ EXCEPT !.pc = "edit", !.file = file, !.text = t.text]
                     ELSE JobReturns(j, t.ret)]
       \/ jobs' = [jobs EXCEPT ![j] = JobReturns(j, "Failed to download file")]
    /\ UNCHANGED <<upd, chat, inbox>>

\* do_update of task j, one round of its loop or its end
job_edit(j) ==
    /\ jobs[j].pc = "edit"
    /\ LET job == jobs[j] IN
       \/ /\ job.i < Len(job.message_ids)
          /\ chat' = [chat EXCEPT ![job.message_ids[job.i + 1]] =
                        [content |-> Content(job.text, job.wide, job.file, job.i),
                         edits |-> @.edits + 1]]
          /\ jobs' = [jobs EXCEPT ![j].i = job.i + 1, ![j].edited = job.edited + 1]
       \/ /\ job.i < Len(job.message_ids)
          /\ jobs' = [jobs EXCEPT ![j] = JobReturns(j, "Err")]
          /\ UNCHANGED chat
       \/ /\ job.i >= Len(job.message_ids)
          /\ jobs' = [jobs EXCEPT ![j] = JobReturns(j, "Ok")]
          /\ UNCHANGED chat
    /\ UNCHANGED <<upd, inbox>>

\* the receiver holds MaxJobs Updates of one mirror group, as MaxJobs pushes
\* to its repository publish them
InitDispatch ==
    /\ upd = IdleUpdate
    /\ chat = [m \in SlotIds |-> [content |-> Unedited, edits |-> 0]]
    /\ jobs = [j \in Jobs |-> IdleJob]
    /\ \E slots \in 1..MaxSlots :
          inbox = [k \in Jobs |-> [message_ids |-> [s \in 1..slots |-> 300 + s],
                                   url_len |-> 60]]

----------------------------------------------------------------------------
(* The mirror command: mirror_cmd *)

\* the URLs given to the command: the host prefix and the rest, split at '/'
Urls ==
    {[prefix |-> "https://github.com/",
      rest |-> <<"SOF3", "rule-mirror", "blob", "master", "README.md">>],
     [prefix |-> "https://raw.githubusercontent.com/",
      rest |-> <<"SOF3", "rule-mirror", "master", "README.md">>],
     [prefix |-> "https://github.com/", rest |-> <<"SOF3", "rule-mirror">>]}

\* the last piece of str::splitn(n, '/'): the pieces from the n-th on, with
\* their '/' kept
RECURSIVE JoinFrom(_, _)
JoinFrom(rest, k) ==
    IF k > Len(rest) THEN ""
    ELSE IF k = Len(rest) THEN rest[k]
    ELSE rest[k] \o "/" \o JoinFrom(rest, k + 1)

\* parse_url: user/repo/<skipped>/path after github.com, user/repo/path after
\* raw.githubusercontent.com; None when a piece is missing
parse_url(url) ==
    IF url.prefix = "https://github.com/"
    THEN IF Len(url.rest) >= 4
         THEN [ok |-> TRUE, user |-> url.rest[1], repo |-> url.rest[2],
               path |-> JoinFrom(url.rest, 4)]
         ELSE [ok |-> FALSE, user |-> "", repo |-> "", path |-> ""]
    ELSE IF url.prefix = "https://raw.githubusercontent.com/"
    THEN IF Len(url.rest) >= 3
         THEN [ok |-> TRUE, user |-> url.rest[1], repo |-> url.rest[2],
               path |-> JoinFrom(url.rest, 3)]
         ELSE [ok |-> FALSE, user |-> "", repo |-> "", path |-> ""]
    ELSE [ok |-> FALSE, user |-> "", repo |-> "", path |-> ""]

Max(a, b) == IF a > b THEN a ELSE b

\* pages = cmp::max(text.len() / MESSAGE_MAX_LENGTH + 1, pages)
EffectivePages(len, pages) == Max((len \div MESSAGE_MAX_LENGTH) + 1, pages)

\* the second argument of the command: absent, a count, or no number
PageArgs == {<<>>, <<<<"x">>>>} \cup {<<to_string(n)>> : n \in 0..(MaxPages + 1)}

\* the lengths of the file the command downloads: empty, short, around every
\* multiple of the capacity up to MaxPages, and 5000 bytes
FileLens ==
    {0, 5, 5000} \cup {k * MESSAGE_MAX_LENGTH + d : k \in 1..MaxPages, d \in {-1, 0, 1}}

\* where the wide character of the downloaded file may lie: nowhere, or
\* across a multiple of the capacity
CmdWideCases(len) ==
    {0} \cup {w \in {k * MESSAGE_MAX_LENGTH : k \in 1..MaxPages} : w <= len - 1}

IdleCmd ==
    [pc |-> "idle", url |-> [prefix |-> "", rest |-> <<>>], arg |-> <<>>, len |-> 0,
     wide |-> 0, repo_id |-> 0, channel_id |-> 0, path |-> "", pages |-> 0, sent |-> <<>>,
     added |-> "none", seen |-> "none", warned |-> 0, ret |-> "none"]

\* mirror_cmd returns
CmdReturns(ret) == cmd' = [cmd EXCEPT !.pc = "done", !.ret = ret]

\* mirror_cmd that looks the repository up after sending its first message
mirror_cmd_fetch_late_lookup(repo_id) ==
    /\ cmd.pc = "start"
    /\ LET pages == IF Len(cmd.arg) = 0 THEN [ok |-> TRUE, value |-> 1]
                    ELSE parse_u64(cmd.arg[1])
           info == parse_url(cmd.url)
       IN \/ /\ ~pages.ok
             /\ CmdReturns("Usage")
          \/ /\ pages.ok /\ ~info.ok
             /\ CmdReturns("The URL must be a file on GitHub repo.")
          \/ /\ pages.ok /\ info.ok
             /\ CmdReturns("Failed to fetch file")
          \/ /\ pages.ok /\ info.ok
             /\ cmd' = [cmd EXCEPT
                          !.pc = "done", !.ret = "Failed to lookup repo",
                          !.sent = <<[id |-> FreshMessageIds(1)[1],
                                      content |-> Slice([cut |-> cmd.len, err |-> 0], cmd.wide, 0)]>>]
          \/ /\ pages.ok /\ info.ok
             /\ cmd' = [cmd EXCEPT !.pc = "send", !.repo_id = repo_id,
                                   !.path = info.path,
                                   !.pages = EffectivePages(cmd.len, pages.value)]
    /\ UNCHANGED <<seen_vars, push_vars, page_vars, web_vars, sub_vars>>

\* mirror_cmd up to its first message: the arguments, parse_url, the channel,
\* the download of the file, the lookup of the repository id and the page
\* count. The download and the lookup may fail.
mirror_cmd_fetch(repo_id) ==
    /\ cmd.pc = "start"
    /\ LET pages == IF Len(cmd.arg) = 0 THEN [ok |-> TRUE, value |-> 1]
                    ELSE parse_u64(cmd.arg[1])
           info == parse_url(cmd.url)
       IN \/ /\ ~pages.ok
             /\ CmdReturns("Usage")
          \/ /\ pages.ok /\ ~info.ok
             /\ CmdReturns("The URL must be a file on GitHub repo.")
          \/ /\ pages.ok /\ info.ok
             /\ CmdReturns("Failed to fetch file")
          \/ /\ pages.ok /\ info.ok
             /\ CmdReturns("Failed to lookup repo")
          \/ /\ pages.ok /\ info.ok
             /\ cmd' = [cmd EXCEPT !.pc = "send", !.repo_id = repo_id,
                                   !.path = info.path,
                                   !.pages = EffectivePages(cmd.len, pages.value)]
    /\ UNCHANGED <<seen_vars, push_vars, page_vars, web_vars, sub_vars>>

\* mirror_cmd, one round of the loop that sends the messages: the slice is
\* taken as in do_update; an error of send_message returns Err
mirror_cmd_send ==
    /\ cmd.pc = "send"
    /\ LET i == Len(cmd.sent)
           slice == Slice([cut |-> cmd.len, err |-> 0], cmd.wide, i)
       IN \/ cmd' = [cmd EXCEPT
                       !.sent = Append(@, [id |-> FreshMessageIds(i + 1)[i + 1],
                                           content |-> slice]),
                       !.pc = IF i + 1 < cmd.pages THEN "send" ELSE "add_update"]
          \/ CmdReturns("Err")
    /\ UNCHANGED <<seen_vars, push_vars, page_vars, web_vars, sub_vars>>

\* mirror_cmd, lines 253-259: conn.add_update; an Err bails out of the command
mirror_cmd_add_update(id, applied) ==
    /\ cmd.pc = "add_update"
    /\ add_update(cmd.repo_id, cmd.path, cmd.channel_id,
                  [k \in 1..Len(cmd.sent) |-> cmd.sent[k].id], id, applied)
    /\ LET ret == created'[Len(created')].ret IN
          cmd' = IF ret = "Ok" THEN [cmd EXCEPT !.pc = "is_seen", !.added = ret]
                 ELSE [cmd EXCEPT !.pc = "done", !.added = ret,
                                  !.ret = IF ret = "panic" THEN "panic"
                                          ELSE "Error storing message group"]
    /\ UNCHANGED <<seen_vars, page_vars, web_vars, sub_vars>>

\* the warning sent for every result of is_seen but Ok(true)
Warns_unless_seen(seen) == seen # "true"

\* the arm of `match conn.is_seen(repo_id).await` that replies with the warning
Warns(seen) == seen = "false"

\* mirror_cmd, lines 261-272: conn.is_seen; Ok(false) is answered with the
\* warning, whose failure is the command's; an Err is logged
mirror_cmd_is_seen ==
    /\ cmd.pc = "is_seen"
    /\ \E seen \in {IF is_seen(cmd.repo_id) THEN "true" ELSE "false", "Err"} :
         \E replied \in {"Ok", "Err"} :
            cmd' = [cmd EXCEPT !.pc = "done", !.seen = seen,
                               !.warned = IF Warns(seen) THEN @ + 1 ELSE @,
                               !.ret = IF Warns(seen) THEN replied ELSE "Ok"]
    /\ UNCHANGED <<seen_vars, push_vars, page_vars, web_vars, sub_vars>>

InitCmdIdle == cmd = IdleCmd

\* a mirror command arrives in a guild channel
InitCmd ==
    \E url \in Urls, arg \in PageArgs, len \in FileLens, c \in Channels :
        \E wide \in CmdWideCases(len) :
            cmd = [IdleCmd EXCEPT !.pc = "start", !.url = url, !.arg = arg, !.len = len,
                                  !.wide = wide, !.channel_id = c]

----------------------------------------------------------------------------
(* The webhook server: installation and repository events *)

InstallationEventActions ==
    {"created", "deleted", "suspend", "unsuspend", "new_permissions_accepted"}

InstallationRepositoriesEventActions == {"added", "removed"}

RepoEventActions ==
    {"created", "deleted", "archived", "unarchived", "edited", "renamed",
     "transferred", "publicized", "privatized"}

\* InstallationEventAction::seen
InstallationEventAction_seen(action) ==
    action \in {"created", "unsuspend", "new_permissions_accepted"}

\* InstallationRepositoriesEventAction::seen
InstallationRepositoriesEventAction_seen(action) == action = "added"

\* RepoEventAction::seen with Transferred => Some(true)
RepoEventAction_seen_transfer(action) ==
    IF action \in {"created", "unarchived", "edited", "renamed", "publicized",
                   "transferred"}
    THEN [some |-> TRUE, value |-> TRUE]
    ELSE [some |-> TRUE, value |-> FALSE]

\* RepoEventAction::seen: an Option<bool>, None for Transferred
RepoEventAction_seen(action) ==
    IF action \in {"created", "unarchived", "edited", "renamed", "publicized"}
    THEN [some |-> TRUE, value |-> TRUE]
    ELSE IF action \in {"deleted", "archived", "privatized"}
    THEN [some |-> TRUE, value |-> FALSE]
    ELSE [some |-> FALSE, value |-> FALSE]

\* the repository lists of an event, as their ids
RepoLists == {<<>>, <<42>>, <<43>>, <<42, 43>>}

IdleWeb ==
    [pc |-> "idle", kind |-> "none", action |-> "none", repositories |-> <<>>,
     repositories_added |-> <<>>, repositories_removed |-> <<>>, repository |-> 0,
     intents |-> {}, output |-> "none"]

\* the calls of seen_bool made for a list of the event (history)
Intents(list, ids, seen) ==
    {[list |-> list, repo_id |-> ids[k], seen |-> seen] : k \in 1..Len(ids)}

\* Conn::seen_bool_multi, its first poll: one seen_bool future per id, all
\* polled up to their first await
seen_bool_multi(ids, seen) ==
    /\ task' = [t \in Tasks |->
                  IF t <= Len(ids)
                  THEN [IdleTask EXCEPT !.pc = IF seen THEN "mark_seen" ELSE "mark_unseen",
                                        !.op = IF seen THEN "seen" ELSE "mark_unseen",
                                        !.repo_id = ids[t], !.seen = seen]
                  ELSE IdleTask]
    /\ hist' = [r \in AllRepos |->
                  IF seen /\ \E k \in 1..Len(ids) : ids[k] = r THEN "true" ELSE hist[r]]
    /\ UNCHANGED <<seen_key, delete_list, dereact_list, on_seen_topic, queued>>

\* the futures of the running seen_bool_multi or seen_bool call
Running == {t \in Tasks : task[t].pc # "idle"}

\* a dropped future: the SADD it has sent still reaches Redis, its reply is
\* not read
Dropped(t) == [IdleTask EXCEPT !.pc = "done", !.ret = "dropped"]

PendingSadd ==
    {to_string(task[t].repo_id) : t \in {u \in Tasks : task[u].pc \in {"mark_seen", "mark_unseen"}}}

\* the loop of seen_bool_multi (or the await of seen_bool): Err as soon as a
\* future has returned Err, which drops the others; Ok when all returned Ok
seen_bool_multi_result ==
    IF \E t \in Running : task[t].pc = "done" /\ task[t].ret = "Err" THEN "Err"
    ELSE IF \A t \in Running : task[t].pc = "done" THEN "Ok"
    ELSE "Pending"

\* the state of the futures and of Redis when the call returns
seen_bool_multi_returns ==
    /\ seen_bool_multi_result # "Pending"
    /\ task' = [t \in Tasks |-> IF Busy(t) THEN Dropped(t) ELSE task[t]]
    /\ seen_key' = seen_key \cup PendingSadd
    /\ UNCHANGED <<delete_list, dereact_list, on_seen_topic, queued, hist>>

\* installation_event: the intent of the action for every repository
installation_event(action, repositories) ==
    /\ web.pc = "idle"
    /\ LET seen == InstallationEventAction_seen(action) IN
          /\ seen_bool_multi(repositories, seen)
          /\ web' = [web EXCEPT !.pc = "await", !.kind = "installation",
                                !.action = action, !.repositories = repositories,
                                !.intents = Intents("repositories", repositories, seen)]
    /\ UNCHANGED <<push_vars, page_vars, cmd_vars, sub_vars>>

\* installation_repositories_event: seen_bool_multi for repositories_added
installation_repositories_event(action, added, removed) ==
    /\ web.pc = "idle"
    /\ LET seen == InstallationRepositoriesEventAction_seen(action) IN
          /\ seen_bool_multi(added, seen)
          /\ web' = [web EXCEPT !.pc = "await_added",
                                !.kind = "installation_repositories",
                                !.action = action, !.repositories_added = added,
                                !.repositories_removed = removed,
                                !.intents = Intents("added", added, seen)]
    /\ UNCHANGED <<push_vars, page_vars, cmd_vars, sub_vars>>

\* installation_repositories_event after the first call: "ERROR" if it
\* failed, else seen_bool_multi for repositories_removed with the same `seen`
installation_repositories_event_removed ==
    /\ web.pc = "await_added"
    /\ seen_bool_multi_result # "Pending"
    /\ IF seen_bool_multi_result = "Err"
       THEN /\ seen_bool_multi_returns
            /\ web' = [web EXCEPT !.pc = "done", !.output = "ERROR"]
       ELSE LET seen == InstallationRepositoriesEventAction_seen(web.action) IN
            /\ seen_bool_multi(web.repositories_removed, seen)
            /\ web' = [web EXCEPT !.pc = "await",
                          !.intents = @ \cup Intents("removed", web.repositories_removed, seen)]
    /\ UNCHANGED <<push_vars, page_vars, cmd_vars, sub_vars>>

\* repository_event: "OK" at once for an action without intent, else seen_bool
repository_event(action, repo_id) ==
    /\ web.pc = "idle"
    /\ LET seen == RepoEventAction_seen(action) IN
          IF seen.some
          THEN /\ seen_bool(1, repo_id, seen.value)
               /\ web' = [web EXCEPT !.pc = "await", !.kind = "repository",
                                     !.action = action, !.repository = repo_id,
                                     !.intents = Intents("repository", <<repo_id>>, seen.value)]
          ELSE /\ web' = [web EXCEPT !.pc = "done", !.kind = "repository",
                                     !.action = action, !.repository = repo_id,
                                     !.output = "OK"]
               /\ UNCHANGED seen_vars
    /\ UNCHANGED <<push_vars, page_vars, cmd_vars, sub_vars>>

\* the handler answers: "OK" for Ok, "ERROR" for Err
web_answer ==
    /\ web.pc = "await"
    /\ seen_bool_multi_returns
    /\ web' = [web EXCEPT !.pc = "done",
                          !.output = IF seen_bool_multi_result = "Ok" THEN "OK" ELSE "ERROR"]
    /\ UNCHANGED <<push_vars, page_vars, cmd_vars, sub_vars>>

InitWebIdle == web = IdleWeb

----------------------------------------------------------------------------
(* db::subscriber: the task that reads a topic into a channel *)

\* mpsc::channel(16)
CHANNEL_CAPACITY == 16

\* what a publisher may put on the topic: a payload that deserializes into T
\* and one that does not
Payloads == {"json", "garbage"}

IdleSub ==
    [pc |-> "idle", stream |-> "none", buffer |-> <<>>, rx |-> <<>>, received |-> 0,
     published |-> 0, breaks |-> 0, logged |-> 0]

\* log::error!("Error handling pubsub: {}", err); the number of lines logged
\* is kept modulo MaxLogged + 1
Logged == [sub EXCEPT !.logged = (@ + 1) % (MaxLogged + 1)]

\* main, before its loop: pubsub_connect and conn.subscribe(topic), once; an
\* Err of either ends the task
subscriber_main ==
    /\ sub.pc = "connect"
    /\ \/ sub' = [sub EXCEPT !.pc = "read", !.stream = "open"]
       \/ sub' = [sub EXCEPT !.pc = "exited"]

\* a PUBLISH on the topic: Redis hands the message to the subscription if
\* there is one
publish(payload) ==
    /\ sub.pc # "idle"
    /\ sub.published < MaxMessages
    /\ sub' = [sub EXCEPT !.published = @ + 1,
                          !.buffer = IF sub.stream = "open"
                                     THEN Append(@, [n |-> sub.published + 1,
                                                     payload |-> payload])
                                     ELSE @]

\* the pub/sub connection is lost: the stream of the subscription ends after
\* the messages it holds
connection_breaks ==
    /\ sub.stream = "open"
    /\ sub.breaks < MaxBreaks
    /\ sub' = [sub EXCEPT !.stream = "ended", !.breaks = @ + 1]

\* main, one round of its loop: read(&tx, &mut sub), whose Err is logged.
\* read awaits pubsub.next(): None is "Connection broken"; a message is
\* deserialized and sent into the channel.
subscriber_read ==
    /\ sub.pc = "read"
    /\ IF Len(sub.buffer) > 0
       THEN LET msg == Head(sub.buffer) IN
            IF msg.payload = "json"
            THEN /\ Len(sub.rx) < CHANNEL_CAPACITY
                 /\ sub' = [sub EXCEPT !.buffer = Tail(@), !.rx = Append(@, msg.n)]
            ELSE sub' = [Logged EXCEPT !.buffer = Tail(@)]
       ELSE /\ sub.stream = "ended"
            /\ sub' = Logged

\* the consumer takes a payload from its receiver
receiver_recv ==
    /\ Len(sub.rx) > 0
    /\ sub' = [sub EXCEPT !.rx = Tail(@), !.received = Head(sub.rx)]

InitSubIdle == sub = IdleSub

\* db::subscriber has spawned main
InitSub == sub = [IdleSub EXCEPT !.pc = "connect"]

----------------------------------------------------------------------------
(* The initial state and the specification of the seen state machine *)

InitSeen ==
    /\ seen_key = {}
    /\ delete_list = [r \in AllRepos |-> <<>>]
    /\ dereact_list = [r \in AllRepos |-> <<>>]
    /\ on_seen_topic = <<>>
    /\ task = [t \in Tasks |-> IdleTask]
    /\ queued = <<>>
    /\ hist = [r \in AllRepos |-> "never"]

Init == InitSeen /\ InitPush /\ InitPageIdle /\ InitCmdIdle /\ InitWebIdle /\ InitSubIdle

StartSeenBool ==
    /\ \E t \in Tasks, r \in Repos, s \in BOOLEAN : seen_bool(t, r, s)
    /\ UNCHANGED <<push_vars, page_vars, cmd_vars, web_vars, sub_vars>>
MarkSeen == (\E t \in Tasks : mark_seen(t)) /\ UNCHANGED <<push_vars, page_vars, cmd_vars, web_vars, sub_vars>>
LrangeDeletions == (\E t \in Tasks : lrange_deletions(t)) /\ UNCHANGED <<push_vars, page_vars, cmd_vars, web_vars, sub_vars>>
LrangeDereacts == (\E t \in Tasks : lrange_dereacts(t)) /\ UNCHANGED <<push_vars, page_vars, cmd_vars, web_vars, sub_vars>>
PublishOnSeen == (\E t \in Tasks : publish_on_seen(t)) /\ UNCHANGED <<push_vars, page_vars, cmd_vars, web_vars, sub_vars>>
MarkUnseen == (\E t \in Tasks : mark_unseen(t)) /\ UNCHANGED <<push_vars, page_vars, cmd_vars, web_vars, sub_vars>>
DeleteOnSeen ==
    /\ \E r \in Repos, c \in Channels : delete_on_seen(r, c, FreshMessage)
    /\ UNCHANGED <<push_vars, page_vars, cmd_vars, web_vars, sub_vars>>
DereactOnSeen ==
    /\ \E r \in Repos, c \in Channels : dereact_on_seen(r, c, FreshMessage)
    /\ UNCHANGED <<push_vars, page_vars, cmd_vars, web_vars, sub_vars>>

Next ==
    \/ StartSeenBool
    \/ MarkSeen
    \/ LrangeDeletions
    \/ LrangeDereacts
    \/ PublishOnSeen
    \/ MarkUnseen
    \/ DeleteOnSeen
    \/ DereactOnSeen

Spec == Init /\ [][Next]_vars

----------------------------------------------------------------------------
(* The specification of the mirror groups and the push path *)

AddUpdate ==
    /\ \E repo_id \in AllRepos, id \in GroupIds, c \in Channels,
          applied \in AppliedCases :
            add_update(repo_id, Paths[Len(created) + 1], c, FreshMessageIds(NextPages),
                       id, applied)
    /\ UNCHANGED <<seen_vars, page_vars, cmd_vars, web_vars, sub_vars>>
PushEvent ==
    /\ \E repo_id \in AllRepos, full_name \in FullNames : push_event(repo_id, full_name)
    /\ UNCHANGED <<seen_vars, page_vars, cmd_vars, web_vars, sub_vars>>
RepoUpdatesSmembers == repo_updates_smembers /\ UNCHANGED <<seen_vars, page_vars, cmd_vars, web_vars, sub_vars>>
RepoUpdatesLoad == repo_updates_load /\ UNCHANGED <<seen_vars, page_vars, cmd_vars, web_vars, sub_vars>>
OnRepoUpdatePublish == on_repo_update_publish /\ UNCHANGED <<seen_vars, page_vars, cmd_vars, web_vars, sub_vars>>

NextPush ==
    \/ AddUpdate
    \/ PushEvent
    \/ RepoUpdatesSmembers
    \/ RepoUpdatesLoad
    \/ OnRepoUpdatePublish

SpecPush == Init /\ [][NextPush]_vars

----------------------------------------------------------------------------
(* The specification of the mirror worker *)

DoUpdateFetch ==
    /\ \E build \in {"debug", "release"} : do_update_fetch(build)
    /\ UNCHANGED <<inbox, jobs, seen_vars, push_vars, cmd_vars, web_vars, sub_vars>>
DoUpdateEdit ==
    /\ do_update_edit
    /\ UNCHANGED <<inbox, jobs, seen_vars, push_vars, cmd_vars, web_vars, sub_vars>>

NextPage ==
    \/ DoUpdateFetch
    \/ DoUpdateEdit

InitWorker == InitSeen /\ InitPush /\ InitPage /\ InitCmdIdle /\ InitWebIdle /\ InitSubIdle

SpecPage == InitWorker /\ [][NextPage]_vars

----------------------------------------------------------------------------
(* The specification of the worker's loop and its tasks *)

InitReady ==
    InitSeen /\ InitPush /\ InitDispatch /\ InitCmdIdle /\ InitWebIdle /\ InitSubIdle

ReadySpawn ==
    ready_spawn /\ UNCHANGED <<seen_vars, push_vars, cmd_vars, web_vars, sub_vars>>
JobFetch ==
    /\ \E j \in Jobs, file \in Files, build \in {"debug", "release"} :
            job_fetch(j, file, build)
    /\ UNCHANGED <<seen_vars, push_vars, cmd_vars, web_vars, sub_vars>>
JobEdit ==
    /\ \E j \in Jobs : job_edit(j)
    /\ UNCHANGED <<seen_vars, push_vars, cmd_vars, web_vars, sub_vars>>

NextReady ==
    \/ ReadySpawn
    \/ JobFetch
    \/ JobEdit

SpecReady == InitReady /\ [][NextReady]_vars

----------------------------------------------------------------------------
(* The specification of the mirror command *)

\* the seen state machine after the installation of repository 42 has been
\* handled: seen_bool(42, true) has returned Ok
InitSeenInstalled ==
    /\ seen_key = {to_string(42)}
    /\ delete_list = [r \in AllRepos |-> <<>>]
    /\ dereact_list = [r \in AllRepos |-> <<>>]
    /\ on_seen_topic = <<[deletions |-> <<>>, dereacts |-> <<>>, repo_id |-> 42,
                          changed |-> TRUE, del_count |-> 0, der_count |-> 0]>>
    /\ task = [t \in Tasks |-> IF t = 1 THEN Returned(t, "Ok") ELSE IdleTask]
    /\ queued = <<>>
    /\ hist = [r \in AllRepos |-> IF r = 42 THEN "true" ELSE "never"]

InitMirror ==
    (InitSeen \/ InitSeenInstalled) /\ InitPush /\ InitPageIdle /\ InitCmd /\ InitWebIdle /\ InitSubIdle

MirrorCmdFetch == \E repo_id \in AllRepos : mirror_cmd_fetch(repo_id)
MirrorCmdSend == mirror_cmd_send
MirrorCmdAddUpdate ==
    \E id \in GroupIds, applied \in AppliedCases : mirror_cmd_add_update(id, applied)
MirrorCmdIsSeen == mirror_cmd_is_seen

NextMirror ==
    \/ MirrorCmdFetch
    \/ MirrorCmdSend
    \/ MirrorCmdAddUpdate
    \/ MirrorCmdIsSeen

SpecMirror == InitMirror /\ [][NextMirror]_vars

----------------------------------------------------------------------------
(* The specification of the push path beside the seen state machine *)

\* the seen state machine after the removal of repository 42 has been
\* handled: seen_bool(42, false) has returned Ok
InitSeenRemoved ==
    /\ seen_key = {to_string(42)}
    /\ delete_list = [r \in AllRepos |-> <<>>]
    /\ dereact_list = [r \in AllRepos |-> <<>>]
    /\ on_seen_topic = <<>>
    /\ task = [t \in Tasks |-> IF t = 1 THEN Returned(t, "Ok") ELSE IdleTask]
    /\ queued = <<>>
    /\ hist = [r \in AllRepos |-> IF r = 42 THEN "false" ELSE "never"]

\* the push path on a store whose repository 42 is absent from the seen
\* state machine, seen, or removed again
InitPushSeen ==
    /\ InitSeen \/ InitSeenInstalled \/ InitSeenRemoved
    /\ InitPush /\ InitPageIdle /\ InitCmdIdle /\ InitWebIdle /\ InitSubIdle

\* add_update calls all of whose writes reach Redis
AddUpdateApplied ==
    /\ \E repo_id \in AllRepos, id \in GroupIds, c \in Channels :
            add_update(repo_id, Paths[Len(created) + 1], c, FreshMessageIds(NextPages),
                       id, Writes)
    /\ UNCHANGED <<seen_vars, page_vars, cmd_vars, web_vars, sub_vars>>

NextPushSeen ==
    \/ AddUpdateApplied
    \/ PushEvent
    \/ RepoUpdatesSmembers
    \/ RepoUpdatesLoad
    \/ OnRepoUpdatePublish

SpecPushSeen == InitPushSeen /\ [][NextPushSeen]_vars

----------------------------------------------------------------------------
(* The specification of the webhook server *)

InitWeb ==
    (InitSeen \/ InitSeenInstalled) /\ InitPush /\ InitPageIdle /\ InitCmdIdle /\ InitWebIdle /\ InitSubIdle

InstallationEvent ==
    \E action \in InstallationEventActions, repositories \in RepoLists :
        installation_event(action, repositories)
InstallationRepositoriesEvent ==
    \E action \in InstallationRepositoriesEventActions, added \in RepoLists,
       removed \in RepoLists :
        installation_repositories_event(action, added, removed)
InstallationRepositoriesEventRemoved == installation_repositories_event_removed
RepositoryEvent ==
    \E action \in RepoEventActions, repo_id \in AllRepos : repository_event(action, repo_id)
WebAnswer == web_answer

NextWeb ==
    \/ InstallationEvent
    \/ InstallationRepositoriesEvent
    \/ InstallationRepositoriesEventRemoved
    \/ RepositoryEvent
    \/ WebAnswer
    \/ MarkSeen
    \/ LrangeDeletions
    \/ LrangeDereacts
    \/ PublishOnSeen
    \/ MarkUnseen

SpecWeb == InitWeb /\ [][NextWeb]_vars

----------------------------------------------------------------------------
(* The specification of a subscriber *)

InitSubscriber ==
    InitSeen /\ InitPush /\ InitPageIdle /\ InitCmdIdle /\ InitWebIdle /\ InitSub

SubscriberMain ==
    subscriber_main /\ UNCHANGED <<seen_vars, push_vars, page_vars, cmd_vars, web_vars>>
Publish ==
    /\ \E payload \in Payloads : publish(payload)
    /\ UNCHANGED <<seen_vars, push_vars, page_vars, cmd_vars, web_vars>>
ConnectionBreaks ==
    connection_breaks /\ UNCHANGED <<seen_vars, push_vars, page_vars, cmd_vars, web_vars>>
SubscriberRead ==
    subscriber_read /\ UNCHANGED <<seen_vars, push_vars, page_vars, cmd_vars, web_vars>>
ReceiverRecv ==
    receiver_recv /\ UNCHANGED <<seen_vars, push_vars, page_vars, cmd_vars, web_vars>>

NextSub ==
    \/ SubscriberMain
    \/ Publish
    \/ ConnectionBreaks
    \/ SubscriberRead
    \/ ReceiverRecv

\* the runtime keeps polling the spawned task and the consumer
SpecSub ==
    /\ InitSubscriber /\ [][NextSub]_vars
    /\ WF_vars(SubscriberMain) /\ WF_vars(SubscriberRead) /\ WF_vars(ReceiverRecv)

----------------------------------------------------------------------------
(* Claims about the seen state machine, checked under Spec *)

\* entry i of queued is carried by message e of on_seen: its channel id and its
\* message id are neighbours, in this order, at an odd position of the list
Carries(e, i) ==
    LET list == IF queued[i].kind = "delete" THEN e.deletions ELSE e.dereacts IN
    /\ e.repo_id = queued[i].repo_id
    /\ \E k \in 1..(Len(list) \div 2) :
          /\ list[2 * k - 1] = queued[i].channel_id
          /\ list[2 * k] = queued[i].message_id

\* entry i of queued is still in its Redis list
StillQueued(i) ==
    LET list == IF queued[i].kind = "delete" THEN delete_list[queued[i].repo_id]
                ELSE dereact_list[queued[i].repo_id] IN
    \E k \in 1..(Len(list) \div 2) :
        /\ list[2 * k - 1] = to_string(queued[i].channel_id)
        /\ list[2 * k] = to_string(queued[i].message_id)

\* a future of Conn::seen for the repository has not returned
SeenInFlight(repo_id) ==
    \E t \in Tasks : Busy(t) /\ task[t].op = "seen" /\ task[t].repo_id = repo_id

\* C1: a message is published on on_seen only by a call whose SADD changed
\* the stored flag from not-seen to seen (so two intent-true events in a row
\* publish once).
C1_PublishOnlyOnChange ==
    \A i \in DOMAIN on_seen_topic : on_seen_topic[i].changed

\* C2: every queued entry is carried by at most one published OnSeen message,
\* and is carried by one or still in its queue.
C2_NoLossNoDuplicate ==
    \A i \in DOMAIN queued :
        LET carriers == {j \in DOMAIN on_seen_topic : Carries(on_seen_topic[j], i)} IN
        /\ Cardinality(carriers) <= 1
        /\ carriers # {} \/ StillQueued(i)

\* C3: in the step in which Conn::seen returns Ok, both queues of its
\* repository are empty.
C3_QueuesEmptyAfterSeen ==
    [][\A t \in Tasks :
          (task[t].pc = "publish" /\ task'[t].pc = "done" /\ task'[t].ret = "Ok")
          => /\ delete_list'[task[t].repo_id] = <<>>
             /\ dereact_list'[task[t].repo_id] = <<>>]_vars

\* C4: a repository that never received an event is not seen, and a repository
\* whose last event was an intent-false event that returned Ok is not seen
\* (while no intent-true event for it is being handled).
C4_UnseenAfterFalse ==
    \A r \in AllRepos :
        /\ hist[r] = "never" => ~is_seen(r)
        /\ (hist[r] = "false" /\ ~SeenInFlight(r)) => ~is_seen(r)

C6_OnePairOneElement ==
    \A i \in DOMAIN on_seen_topic :
        LET e == on_seen_topic[i] IN
        /\ Len(e.deletions) = e.del_count
        /\ Len(e.dereacts) = e.der_count
        /\ is_seen(e.repo_id)

----------------------------------------------------------------------------
(* Claims about the push path, checked under SpecPush *)

\* the record of a group holds its path, its channel, its message list and
\* the reverse entry of every message of the list
Complete(id) ==
    /\ path_key[id] # Nil
    /\ channel_key[id] # Nil
    /\ messages_key[id] # <<>>
    /\ \A k \in 1..Len(messages_key[id]) :
          rev_key[parse_u64(messages_key[id][k]).value] = id

\* the Update of a complete group: its stored channel, its stored message ids
\* in stored order, the URL of the pushed owner/name and its stored path
StoredUpdate(id, user, repo) ==
    [channel_id |-> parse_u64(channel_key[id]).value,
     message_ids |-> ParseAll(messages_key[id]).value,
     url |-> RawUrl(user, repo, path_key[id])]

\* what the push being handled has published
Published == SubSeq(updates_topic, push.base + 1, Len(updates_topic))

\* the push has been answered; the store was reachable and full_name had a '/'
PushAnswered ==
    /\ push.pc = "done"
    /\ ~push.conn_error
    /\ push.output # "Deserialization error"

\* the group was created for the repository by an add_update that returned Ok
CreatedFor(id, repo_id) ==
    \E c \in DOMAIN created :
        created[c].id = id /\ created[c].repo_id = repo_id /\ created[c].ret = "Ok"

\* C7: when a push on a repository whose N groups are all complete (each
\* created for it by a successful add_update) has been answered, it has
\* published N Update messages, one per group, each with the group's stored
\* fields.
C7_OneUpdatePerGroup ==
    (/\ PushAnswered
     /\ \A k \in 1..Len(push.groups) :
           Complete(push.groups[k]) /\ CreatedFor(push.groups[k], push.repo_id))
    => /\ Len(Published) = Len(push.groups)
       /\ \A k \in 1..Len(push.groups) :
             Published[k] = StoredUpdate(push.groups[k], push.user, push.repo)

\* C8: a push on a repository with no mirror group publishes nothing and is
\* answered OK.
C8_NoGroupNoUpdate ==
    (PushAnswered /\ push.groups = <<>>)
    => /\ push.output = "OK"
       /\ Published = <<>>

\* C8 witness: a push on repository 42, which has no group, has been answered
\* OK while repository 43 has a complete group.
C8_Witness ==
    /\ PushAnswered
    /\ push.repo_id = 42
    /\ repo_key[42] = {}
    /\ \E g \in repo_key[43] : Complete(g)
    /\ push.output = "OK"

\* what Conn::repo_updates makes of the groups of the push, from the registry
\* alone
Loaded == repo_updates(push.groups, push.user, push.repo)

\* C17: no step of a push handler changes the seen set or a queue, and the
\* answer and the Updates published are those of the registry, whatever the
\* seen state of the repository.
C17_PushIgnoresSeen ==
    [][/\ push' # push => UNCHANGED <<seen_key, delete_list, dereact_list>>
       /\ PushAnswered'
          => /\ push'.output = IF Loaded'.ok THEN "OK" ELSE "ERROR"
             /\ Published' = Loaded'.value]_vars

\* a push has been answered for repository 43, which was never seen and has a
\* group, on a store in which repository 42 is seen
C17_Witness ==
    /\ PushAnswered
    /\ push.repo_id = 43 /\ push.groups # <<>>
    /\ to_string(43) \notin seen_key /\ to_string(42) \in seen_key

----------------------------------------------------------------------------
(* Claims about the pagination of do_update, checked under SpecPage *)

Capacity == Len(upd.message_ids) * MESSAGE_MAX_LENGTH

\* do_update has returned Ok: every round of its loop has edited its message
Finished == upd.pc = "done" /\ upd.ret = "Ok"

\* the text the slices are to reproduce: the file when it fits, else its first
\* n*C - len(suffix) bytes followed by the suffix
PagedText ==
    IF upd.len <= Capacity THEN [cut |-> upd.len, err |-> 0]
    ELSE [cut |-> Capacity - ErrLen(upd.url_len), err |-> ErrLen(upd.url_len)]

\* the end of the concatenation of the slices written to the messages k, k+1,
\* ..., placeholders left out, when the bytes before them end at `pos`; -1
\* when a slice does not start where the bytes before it end
RECURSIVE ConcatEnd(_, _)
ConcatEnd(k, pos) ==
    IF k > Len(upd.message_ids) THEN pos
    ELSE LET c == chat[upd.message_ids[k]].content IN
         IF c.kind # "slice" \/ c.from = c.to THEN ConcatEnd(k + 1, pos)
         ELSE IF c.from = pos THEN ConcatEnd(k + 1, c.to)
         ELSE -1

\* C9: the slices written by do_update are ranges of the paged text (the file,
\* or its truncation with the suffix), their concatenation in slot order,
\* placeholders left out, is the whole of it, and slice i starts at C*i and
\* has at most C bytes. Stated for the Updates whose suffix is shorter than
\* one message, so that n*C - len(suffix) is a length.
C9_SlicesReproduceText ==
    (Finished /\ ErrLen(upd.url_len) < MESSAGE_MAX_LENGTH)
    => /\ upd.text = PagedText
       /\ ConcatEnd(1, 0) = TextLen(PagedText)
       /\ \A k \in 1..Len(upd.message_ids) :
             LET c == chat[upd.message_ids[k]].content IN
             c.kind = "slice"
             => /\ c.from = MESSAGE_MAX_LENGTH * (k - 1)
                /\ c.to - c.from <= MESSAGE_MAX_LENGTH

\* C10: every message of the Update is edited exactly once, and message i
\* gets the placeholder exactly when the text has no byte at or after C*i.
C10_PlaceholderRule ==
    Finished
    => \A k \in 1..Len(upd.message_ids) :
          /\ chat[upd.message_ids[k]].edits = 1
          /\ chat[upd.message_ids[k]].content = Placeholder
             <=> TextLen(upd.text) <= MESSAGE_MAX_LENGTH * (k - 1)

\* C11: when an edit of do_update has failed at one slot, every other slot
\* whose message can be fetched and edited has been edited to its slice.
C11_OtherSlotsStillEdited ==
    (upd.pc = "done" /\ upd.ret = "Err")
    => \A k \in 1..Len(upd.message_ids) :
          upd.message_ids[k] \notin upd.broken
          => /\ chat[upd.message_ids[k]].edits = 1
             /\ chat[upd.message_ids[k]].content = Slice(upd.text, upd.wide, k - 1)

\* the repository is seen and its transition has been handled: an OnSeen
\* message was published for it and no Conn::seen for it is running
SeenHandled(repo_id) ==
    /\ is_seen(repo_id)
    /\ ~SeenInFlight(repo_id)
    /\ \E i \in DOMAIN on_seen_topic : on_seen_topic[i].repo_id = repo_id

\* C18: once a repository is seen and its transition has been handled, no
\* step adds an entry to one of its queues.
C18_NoQueueingOnceSeen ==
    [][\A r \in AllRepos :
          SeenHandled(r) => /\ Len(delete_list'[r]) <= Len(delete_list[r])
                            /\ Len(dereact_list'[r]) <= Len(dereact_list[r])]_vars

\* C21: for a file longer than n*C the truncation step of do_update does not
\* abort, cuts the file on a character boundary, and yields a text of at most
\* n*C bytes that ends with the whole suffix.
C21_TruncationCompletes ==
    (/\ upd.pc \in {"edit", "done"}
     /\ upd.ret # "Failed to download file"
     /\ upd.len > Capacity)
    => /\ upd.ret # "panic"
       /\ TextLen(upd.text) <= Capacity
       /\ upd.text.err = ErrLen(upd.url_len)
       /\ is_char_boundary([cut |-> upd.len, err |-> 0], upd.wide, upd.text.cut)

----------------------------------------------------------------------------
(* Claims about the registry of mirror groups, checked under SpecPush *)

\* the group ids listed under some repository
Listed == UNION {repo_key[r] : r \in AllRepos}

\* C13: every entry of the message list of every listed group has a reverse
\* index entry whose value is the group's id.
C13_ReverseIndexComplete ==
    \A id \in Listed :
        \A k \in 1..Len(messages_key[id]) :
            rev_key[parse_u64(messages_key[id][k]).value] = id

\* the record of the group looks as the call created[c] wrote it
AsWritten(c) ==
    LET g == created[c] IN
    /\ path_key[g.id] = g.path
    /\ channel_key[g.id] = to_string(g.channel)
    /\ messages_key[g.id] = [k \in 1..Len(g.message_ids) |-> to_string(g.message_ids[k])]

\* C14: when every add_update call so far has returned Ok, the record of
\* each group they created is as its call wrote it, also when a later call
\* drew an id already in use.
C14_GroupRecordImmutable ==
    (\A d \in DOMAIN created : created[d].ret = "Ok")
    => \A c \in DOMAIN created : AsWritten(c)

----------------------------------------------------------------------------
(* Claims about mirror_cmd, checked under SpecMirror *)

\* ceil(len / C)
CeilPages(len) == (len + MESSAGE_MAX_LENGTH - 1) \div MESSAGE_MAX_LENGTH

\* the explicit page count, or 1 when there is none (an explicit 0 asks for no
\* page and counts as none)
ExplicitOrOne ==
    IF Len(cmd.arg) = 0 THEN 1 ELSE Max(parse_u64(cmd.arg[1]).value, 1)

\* C12: the page count mirror_cmd works with is max(explicit or 1,
\* ceil(len / C)), for every length of the file and every explicit count.
C12_EffectivePageCount ==
    cmd.pc \in {"send", "add_update", "is_seen"}
    => cmd.pages = Max(ExplicitOrOne, CeilPages(cmd.len))

----------------------------------------------------------------------------
(* Claims about the webhook events, checked under SpecWeb *)

\* the intent listed for an event kind, its action and the list a repository
\* is in
ListedIntent(kind, action, list) ==
    IF kind = "installation"
    THEN action \in {"created", "unsuspend", "new_permissions_accepted"}
    ELSE IF kind = "repository"
    THEN action \in {"created", "unarchived", "edited", "renamed", "publicized"}
    ELSE list = "added"

\* C15: every seen_bool call that a handler makes for a repository of its
\* event carries the intent listed for the event: by the action for
\* installation and repository events, true for repositories_added and false
\* for repositories_removed.
C15_EventIntent ==
    \A i \in web.intents : i.seen = ListedIntent(web.kind, web.action, i.list)

\* the handler works on (or has answered) a repository Transferred event
Transferred == web.kind = "repository" /\ web.action = "transferred"

\* C16: no step of the server from the arrival of a repository Transferred
\* event on changes the seen set, a queue, a mirror group or a topic, and the
\* handler starts no seen_bool call for it.
C16_TransferredFrame ==
    [][Transferred' => /\ UNCHANGED <<seen_key, delete_list, dereact_list>>
                       /\ UNCHANGED <<repo_key, path_key, channel_key, messages_key, rev_key>>
                       /\ UNCHANGED <<on_seen_topic, updates_topic, task>>]_vars

\* a Transferred event for a repository has been answered OK
C16_Witness ==
    /\ Transferred
    /\ web.pc = "done" /\ web.output = "OK"
    /\ web.repository \in AllRepos

\* the group of the command is in the registry: listed under its repository,
\* with its path, channel, messages and reverse index
GroupPersisted ==
    \E id \in repo_key[cmd.repo_id] :
        /\ Complete(id)
        /\ path_key[id] = cmd.path
        /\ \A k \in 1..Len(cmd.sent) : rev_key[cmd.sent[k].id] = id

\* C19: when mirror_cmd comes to its seen check the group is persisted, it
\* stays so whatever is_seen returns (true, false or an error), and the
\* warning is sent exactly when is_seen returned false.
C19_GroupBeforeSeenCheck ==
    /\ (cmd.pc = "is_seen" \/ cmd.seen # "none") => GroupPersisted
    /\ cmd.warned = IF cmd.seen = "false" THEN 1 ELSE 0

\* mirror_cmd has sent the warning for a repository that is not seen, after
\* persisting a group of more than one message
C19_Witness ==
    /\ cmd.pc = "done" /\ cmd.seen = "false" /\ cmd.warned = 1
    /\ ~is_seen(cmd.repo_id)
    /\ Len(cmd.sent) > 1
    /\ GroupPersisted

----------------------------------------------------------------------------
(* Claims about db::subscriber, checked under SpecSub *)

\* C20: after the stream of the subscription has ended with the connection,
\* the subscriber task subscribes again.
C20_ResubscribesAfterBreak == (sub.stream = "ended") ~> (sub.stream = "open")

----------------------------------------------------------------------------
(* Claims about the worker's loop, checked under SpecReady *)

\* the tasks spawned so far
Spawned == {j \in Jobs : jobs[j].pc # "idle"}

\* C22: a do_update task whose download failed has edited no message and has
\* logged one error; every Update received gives one task and no more (no
\* retry), and the loop still spawns a task for an Update that waits in the
\* receiver.
C22_FetchFailureIsolated ==
    /\ \A j \in Jobs :
          jobs[j].ret = "Failed to download file"
          => jobs[j].pc = "done" /\ jobs[j].edited = 0 /\ jobs[j].logged = 1
    /\ Cardinality(Spawned) + Len(inbox) = MaxJobs
    /\ Len(inbox) > 0 => ENABLED ready_spawn

\* the download of the first task failed; the task of a later Update has
\* edited every message of the group and returned Ok
C22_Witness ==
    /\ jobs[1].ret = "Failed to download file" /\ jobs[1].logged = 1
    /\ jobs[MaxJobs].ret = "Ok" /\ jobs[MaxJobs].edited = Len(jobs[MaxJobs].message_ids)
    /\ \A k \in 1..Len(jobs[1].message_ids) : chat[jobs[1].message_ids[k]].edits >= 1

\* every message of the group holds what a task that fetched `file` writes
HoldsVersion(j) ==
    \A k \in 1..Len(jobs[j].message_ids) :
        chat[jobs[j].message_ids[k]].content
            = Content(jobs[j].text, jobs[j].wide, jobs[j].file, k - 1)

\* C27: when two do_update tasks of one group that fetched different
\* versions of the file have both returned Ok, all messages of the group
\* hold the slices of one of the two versions.
C27_OneVersionAfterRace ==
    (/\ \A j \in Jobs : jobs[j].pc = "done" /\ jobs[j].ret = "Ok"
     /\ \E i, j \in Jobs : jobs[i].file # jobs[j].file)
    => \E j \in Jobs : HoldsVersion(j)

\* C23: when a push on a repository with several groups, of which some are
\* complete and some lack a field, has been answered, the Update of every
\* complete group has been published.
C23_GroupsIndependent ==
    (/\ PushAnswered
     /\ Len(push.groups) >= 2
     /\ \E k \in 1..Len(push.groups) : ~Complete(push.groups[k]))
    => \A k \in 1..Len(push.groups) :
          Complete(push.groups[k])
          => \E m \in 1..Len(Published) :
                Published[m] = StoredUpdate(push.groups[k], push.user, push.repo)

\* the record of the group lacks its path, its channel or its message list
MissingField(id) ==
    \/ path_key[id] = Nil
    \/ channel_key[id] = Nil
    \/ messages_key[id] = <<>>

\* the Update is what the stored path and message list of the group give
BuiltFrom(update, id) ==
    /\ update.url = RawUrl(push.user, push.repo, path_key[id])
    /\ update.message_ids = ParseAll(messages_key[id]).value

\* C24: a push whose repository lists a group that lacks its path, its
\* channel or its message list is answered with an error, and no Update
\* built from such a group is published.
C24_MissingFieldFails ==
    \A k \in 1..Len(push.groups) :
        MissingField(push.groups[k])
        => /\ PushAnswered => push.output = "ERROR"
           /\ \A m \in 1..Len(Published) : ~BuiltFrom(Published[m], push.groups[k])

\* C24 witness: a push has been answered with an error on a repository with
\* a group that has its path and its channel but no message list.
C24_Witness ==
    /\ PushAnswered
    /\ push.output = "ERROR"
    /\ \E k \in 1..Len(push.groups) :
          /\ path_key[push.groups[k]] # Nil
          /\ channel_key[push.groups[k]] # Nil
          /\ messages_key[push.groups[k]] = <<>>

\* the errors of mirror_cmd that precede its first message
EarlyErrors ==
    {"Usage", "The URL must be a file on GitHub repo.", "Failed to fetch file",
     "Failed to lookup repo"}

\* C25: a mirror_cmd that failed at its arguments, at parse_url, at the
\* download of the file or at the lookup of the repository id has sent no
\* message and has written no registry key.
C25_EarlyFailureNoEffect ==
    cmd.ret \in EarlyErrors
    => /\ cmd.pc = "done"
       /\ cmd.sent = <<>>
       /\ created = <<>>
       /\ InitPush

\* C25 witness: the lookup of the repository id of a well-formed URL, whose
\* file was downloaded, has failed and the command is over.
C25_Witness ==
    /\ cmd.pc = "done"
    /\ cmd.ret = "Failed to lookup repo"
    /\ parse_url(cmd.url).ok
    /\ cmd.len > 0
    /\ cmd.sent = <<>>

\* C26: after a mirror_cmd that returned Ok, the stored message list of its
\* group is the ids of the messages it sent, in page order, as many as the
\* effective page count, and message i was sent with the bytes
\* [C*i, min(C*(i+1), len)) of the file when the file has a byte at C*i.
C26_SentSlicesStored ==
    (cmd.pc = "done" /\ cmd.ret = "Ok")
    => /\ Len(cmd.sent) = cmd.pages
       /\ messages_key[created[Len(created)].id]
             = [k \in 1..Len(cmd.sent) |-> to_string(cmd.sent[k].id)]
       /\ \A k \in 1..Len(cmd.sent) :
             MESSAGE_MAX_LENGTH * (k - 1) < cmd.len
             => cmd.sent[k].content
                  = [kind |-> "slice", from |-> MESSAGE_MAX_LENGTH * (k - 1),
                     to |-> Min(MESSAGE_MAX_LENGTH * k, cmd.len)]

----------------------------------------------------------------------------
(* The specification of the webhook server beside the deferred actions *)

\* delete_on_seen and dereact_on_seen are called for any repository while an
\* event is handled
DeleteOnSeenAny ==
    /\ \E r \in AllRepos, c \in Channels : delete_on_seen(r, c, FreshMessage)
    /\ UNCHANGED <<push_vars, page_vars, cmd_vars, web_vars, sub_vars>>
DereactOnSeenAny ==
    /\ \E r \in AllRepos, c \in Channels : dereact_on_seen(r, c, FreshMessage)
    /\ UNCHANGED <<push_vars, page_vars, cmd_vars, web_vars, sub_vars>>

NextWebQueue ==
    \/ NextWeb
    \/ DeleteOnSeenAny
    \/ DereactOnSeenAny

SpecWebQueue == InitWeb /\ [][NextWebQueue]_vars

----------------------------------------------------------------------------
(* Claims about the isolation of repositories, checked under SpecWebQueue *)

\* the channel and message ids queued for a repository with one of the calls
EnqueuedValues(repo_id, kind) ==
    UNION {{queued[i].channel_id, queued[i].message_id} : i \in QueuedFor(repo_id, kind)}

\* the futures whose next command is the SADD on the seen set for the repository
Transition(repo_id) ==
    {t \in Tasks : task[t].repo_id = repo_id /\ task[t].pc \in {"mark_seen", "mark_unseen"}}

\* C28: an OnSeen message published for a repository holds only values queued
\* for that repository; the queues of a repository change only by an enqueue
\* for it, and its seen flag only by the SADD of a seen_bool call for it.
C28_RepositoriesIsolated ==
    [][/\ on_seen_topic' # on_seen_topic
          => LET m == on_seen_topic'[Len(on_seen_topic')] IN
             /\ \A k \in 1..Len(m.deletions) :
                   m.deletions[k] \in EnqueuedValues(m.repo_id, "delete")
             /\ \A k \in 1..Len(m.dereacts) :
                   m.dereacts[k] \in EnqueuedValues(m.repo_id, "dereact")
       /\ \A r \in AllRepos :
             /\ (delete_list'[r] # delete_list[r] \/ dereact_list'[r] # dereact_list[r])
                => /\ Len(queued') = Len(queued) + 1
                   /\ queued'[Len(queued')].repo_id = r
             /\ ((to_string(r) \in seen_key') # (to_string(r) \in seen_key))
                => Transition(r) # {}]_vars

\* C28 witness: one installation event for repositories 42 and 43 has
\* published an OnSeen message for each, both with queued entries.
C28_Witness ==
    /\ web.kind = "installation" /\ web.repositories = <<42, 43>>
    /\ \E i, j \in DOMAIN on_seen_topic :
          /\ on_seen_topic[i].repo_id = 42 /\ on_seen_topic[j].repo_id = 43
          /\ Len(on_seen_topic[i].deletions) > 0
          /\ Len(on_seen_topic[j].deletions) > 0

====
